---- MODULE Spec2Model ----
(***************************************************************************)
(* Model of PcbUpdater (KiCAD_action_plugin/API_scripts/pcb_updater.py):   *)
(* the static methods that apply a diff to a pcbnew.BOARD and to the       *)
(* parallel dictionary data model ("pcb", the shadow model).               *)
(*                                                                         *)
(* Encoding of Python values                                               *)
(*   [x, y] list             <<x, y>>                                      *)
(*   pcbnew.VECTOR2I         [x |-> , y |-> ]                              *)
(*   None / int (Optional)   <<>> / <<n>>                                  *)
(*   dict that is mutated    [keys |-> <<k1, ..>>, vals |-> [k |-> v]]     *)
(*                           (keys keeps the insertion order str() prints) *)
(*   dict that is only read  a record                                      *)
(*   {kiid: {prop: value}}   [kiid |-> k, changes |-> << <<prop, value>> >>]*)
(*   md5 hex digest          <<"md5", s>>: collision free                  *)
(* A board drawing is the PCB_SHAPE's fields: start, end, mid, poly. A     *)
(* circle keeps its centre in start and a boundary point in end; a         *)
(* rectangle keeps left/top in start and right/bottom in end.              *)
(***************************************************************************)
EXTENDS Integers, Sequences, FiniteSets, TLC

VARIABLES brd, pcb, uuids, applied, last

vars == <<brd, pcb, uuids, applied, last>>

(* Total number of diff entries applied over all calls.                    *)
MaxEntries == 3

(* Program constants.                                                      *)
ShapeWidth == 100000
FrontLayer == 0
BackLayer == 31

(* Identifiers KiCAD hands out to new objects, in the order of creation.   *)
KiidPool == <<"n1", "n2", "n3", "n4", "n5", "n6">>

(* ------------------------------------------------------------------ *)
(* Python builtins                                                     *)
(* ------------------------------------------------------------------ *)
Range(s) == {s[i] : i \in 1..Len(s)}

DictGet(d, k) == d.vals[k]

DictUpdate(d, k, v) ==
    [keys |-> IF k \in Range(d.keys) THEN d.keys ELSE Append(d.keys, k),
     vals |-> [x \in (DOMAIN d.vals) \cup {k} |-> IF x = k THEN v ELSE d.vals[x]]]

(* str(d): the items in key order.                                         *)
Str(d) == [i \in 1..Len(d.keys) |-> <<d.keys[i], d.vals[d.keys[i]]>>]

Md5Hex(s) == <<"md5", s>>

RECURSIVE PyMin(_)
PyMin(xs) ==
    IF Len(xs) = 1 THEN xs[1]
    ELSE LET m == PyMin(Tail(xs)) IN IF m < xs[1] THEN m ELSE xs[1]

RECURSIVE PyMax(_)
PyMax(xs) ==
    IF Len(xs) = 1 THEN xs[1]
    ELSE LET m == PyMax(Tail(xs)) IN IF m > xs[1] THEN m ELSE xs[1]

Truthy(opt) == opt /= <<>> /\ opt[1] /= 0

(* ------------------------------------------------------------------ *)
(* API_scripts.utils                                                   *)
(* ------------------------------------------------------------------ *)
KiCADVector(l) == [x |-> l[1], y |-> l[2]]

(* Index of the entry with this kiid in a list of dictionaries, 0 if none. *)
getDictEntryByKIID(list, kiid) ==
    LET hits == {i \in 1..Len(list) : DictGet(list[i], "kiid") = kiid}
    IN IF hits = {} THEN 0 ELSE CHOOSE i \in hits : \A j \in hits : i <= j

getDrawingByKIID(b, kiid) ==
    LET hits == {i \in 1..Len(b.drawings) : b.drawings[i].kiid = kiid}
    IN IF hits = {} THEN 0 ELSE CHOOSE i \in hits : \A j \in hits : i <= j

getFootprintByKIID(b, kiid) ==
    LET hits == {i \in 1..Len(b.footprints) : b.footprints[i].kiid = kiid}
    IN IF hits = {} THEN 0 ELSE CHOOSE i \in hits : \A j \in hits : i <= j

(* ------------------------------------------------------------------ *)
(* pcbnew: PCB_SHAPE and FOOTPRINT                                     *)
(* ------------------------------------------------------------------ *)
Abs(n) == IF n < 0 THEN 0 - n ELSE n

(* The integer nearest to the square root of n.                            *)
RoundSqrt(n) == CHOOSE r \in 0..n : (2*r - 1) * (2*r - 1) <= 4*n /\ 4*n < (2*r + 1) * (2*r + 1)

(* Length of the segment a-b, rounded to board units.                      *)
LineLength(a, b) ==
    LET dx == a.x - b.x
        dy == a.y - b.y
    IN IF dx = 0 THEN Abs(dy)
       ELSE IF dy = 0 THEN Abs(dx)
       ELSE RoundSqrt(dx * dx + dy * dy)

Vec0 == [x |-> 0, y |-> 0]

(* PCB_SHAPE(): a segment with a fresh identifier.                         *)
PCB_SHAPE(kiid) ==
    [kiid |-> kiid, shape |-> "Line", start |-> Vec0, end |-> Vec0, mid |-> Vec0,
     poly |-> <<>>, layer |-> "F_Cu", width |-> 0]

ShowShape(drw) == drw.shape
SetShape(drw, s) == [drw EXCEPT !.shape = s]
SetShapeLayer(drw, l) == [drw EXCEPT !.layer = l]
SetWidth(drw, w) == [drw EXCEPT !.width = w]
SetStart(drw, p) == [drw EXCEPT !.start = p]
SetEnd(drw, p) == [drw EXCEPT !.end = p]
GetStart(drw) == drw.start
GetEnd(drw) == drw.end
(* A circle's centre is its start point.                                   *)
SetCenter(drw, p) == [drw EXCEPT !.start = p]
GetCenter(drw) == drw.start
GetRadius(drw) == LineLength(drw.start, drw.end)
(* SetPosition moves the whole shape so that its position is p; the        *)
(* position of a circle is its centre.                                     *)
SetPosition(drw, p) ==
    LET dx == p.x - drw.start.x
        dy == p.y - drw.start.y
    IN [drw EXCEPT !.start = p,
                   !.end = [x |-> drw.end.x + dx, y |-> drw.end.y + dy]]
SetTop(drw, v) == [drw EXCEPT !.start.y = v]
SetBottom(drw, v) == [drw EXCEPT !.end.y = v]
SetLeft(drw, v) == [drw EXCEPT !.start.x = v]
SetRight(drw, v) == [drw EXCEPT !.end.x = v]
GetTop(drw) == drw.start.y
GetBottom(drw) == drw.end.y
GetLeft(drw) == drw.start.x
GetRight(drw) == drw.end.x
SetPolyPoints(drw, pts) == [drw EXCEPT !.poly = pts]
SetArcGeometry(drw, p1, md, p2) == [drw EXCEPT !.start = p1, !.mid = md, !.end = p2]

SetReference(fp, v) == [fp EXCEPT !.ref = v]
SetFpPosition(fp, p) == [fp EXCEPT !.pos = p]
SetOrientationDegrees(fp, v) == [fp EXCEPT !.rot = v]
SetLayer(fp, l) == [fp EXCEPT !.layer = l]

(* BOARD.Add                                                               *)
BoardAdd(b, shape) == [b EXCEPT !.drawings = Append(@, shape)]

(* ------------------------------------------------------------------ *)
(* A call in progress: the board, the data model, the identifiers      *)
(* handed out, the errors logged, the exception raised ("" if none)    *)
(* and the values the calls of addDrawing returned.                    *)
(* ------------------------------------------------------------------ *)
LogError(st, msg, kiid) == [st EXCEPT !.log = Append(@, <<"error", msg, kiid>>)]

Raise(st, exc) == [st EXCEPT !.raised = exc]

(* "word in s" for the shape names in use (KiCAD shows a polygon as        *)
(* "Polygon").                                                             *)
InStr(word, s) == s = word \/ (word = "Poly" /\ s = "Polygon")

(* ------------------------------------------------------------------ *)
(* PcbUpdater.addDrawing                                               *)
(* ------------------------------------------------------------------ *)
NewLine(new_shape, drawing) ==
    LET start == KiCADVector(drawing.start)
        end == KiCADVector(drawing.end)
    IN SetEnd(SetStart(new_shape, start), end)

NewCircleFlipped(new_shape, drawing) ==
    LET center == drawing.center
        radius == drawing.radius
        end_point == <<center[1], center[2] - radius>>
    IN SetEnd(SetCenter(SetShape(new_shape, "Circle"), KiCADVector(center)),
              KiCADVector(end_point))

NewCircle(new_shape, drawing) ==
    LET center == drawing.center
        radius == drawing.radius
        end_point == <<center[1], center[2] + radius>>
    IN SetEnd(SetCenter(SetShape(new_shape, "Circle"), KiCADVector(center)),
              KiCADVector(end_point))

NewArc(new_shape, drawing) ==
    LET start == KiCADVector(drawing.points[1])
        arc_md == KiCADVector(drawing.points[2])
        end == KiCADVector(drawing.points[3])
    IN SetArcGeometry(SetShape(new_shape, "Arc"), start, arc_md, end)

(* The shape is added and its identifier returned.                         *)
AddToBoard(st, new_shape) ==
    [st EXCEPT !.brd = BoardAdd(@, new_shape),
               !.rets = Append(@, new_shape.kiid)]

InvalidShapeAdded(st, new_shape) ==
    AddToBoard(LogError(st, "Invalid new drawing shape", ""), new_shape)

(* The else branch: the error is logged and "" returned.                   *)
InvalidShape(st, new_shape) ==
    [LogError(st, "Invalid new drawing shape", "") EXCEPT !.rets = Append(@, "")]

addDrawing(st, drawing) ==
    LET new_shape == SetWidth(SetShapeLayer(PCB_SHAPE(KiidPool[st.uuids + 1]), "Edge_Cuts"),
                              ShapeWidth)
        st1 == [st EXCEPT !.uuids = @ + 1]
        shape == drawing.shape
    IN IF InStr("Line", shape) THEN AddToBoard(st1, NewLine(new_shape, drawing))
       ELSE IF InStr("Circle", shape) THEN AddToBoard(st1, NewCircle(new_shape, drawing))
       ELSE IF InStr("Arc", shape) THEN AddToBoard(st1, NewArc(new_shape, drawing))
       ELSE InvalidShape(st1, new_shape)

(* ------------------------------------------------------------------ *)
(* PcbUpdater.addDrawings                                              *)
(* ------------------------------------------------------------------ *)
RECURSIVE addDrawingsFrom(_, _, _)
addDrawingsFrom(st, added, i) ==
    IF i > Len(added) THEN st
    ELSE addDrawingsFrom(addDrawing(st, added[i]), added, i + 1)

addDrawings(st, added) == addDrawingsFrom(st, added, 1)

(* ------------------------------------------------------------------ *)
(* PcbUpdater.updateDrawings                                           *)
(* ------------------------------------------------------------------ *)
LineSetPoint(drw, drawing_property, value) ==
    LET point_new == KiCADVector(value)
    IN IF drawing_property = "start" THEN SetStart(drw, point_new)
       ELSE IF drawing_property = "end" THEN SetEnd(drw, point_new)
       ELSE drw

RectSetSidesSwapped(drw, value) ==
    LET x_coordinates == [i \in 1..Len(value) |-> value[i][1]]
        y_coordinates == [i \in 1..Len(value) |-> value[i][2]]
        rect_top == PyMax(y_coordinates)
        rect_bottom == PyMin(y_coordinates)
        rect_left == PyMin(x_coordinates)
        rect_right == PyMax(x_coordinates)
    IN SetRight(SetLeft(SetBottom(SetTop(drw, rect_top), rect_bottom), rect_left), rect_right)

RectSetSides(drw, value) ==
    LET x_coordinates == [i \in 1..Len(value) |-> value[i][1]]
        y_coordinates == [i \in 1..Len(value) |-> value[i][2]]
        rect_top == PyMin(y_coordinates)
        rect_bottom == PyMax(y_coordinates)
        rect_left == PyMin(x_coordinates)
        rect_right == PyMax(x_coordinates)
    IN SetRight(SetLeft(SetBottom(SetTop(drw, rect_top), rect_bottom), rect_left), rect_right)

PolySetPoints(drw, value) ==
    SetPolyPoints(drw, [i \in 1..Len(value) |-> KiCADVector(value[i])])

ArcSetPoints(drw, value) ==
    LET p1 == KiCADVector(value[1])
        md == KiCADVector(value[2])
        p2 == KiCADVector(value[3])
    IN SetArcGeometry(drw, p1, md, p2)

CircleSetCenter(drw, value) == SetPosition(drw, KiCADVector(value))

CircleSetRadiusAdded(drw, value) ==
    LET new_radius == value
        old_radius == GetRadius(drw)
        radius_diff == old_radius - new_radius
        end_point == <<GetEnd(drw).x, GetEnd(drw).y + radius_diff>>
    IN SetEnd(drw, KiCADVector(end_point))

CircleSetRadius(drw, value) ==
    LET new_radius == value
        old_radius == GetRadius(drw)
        radius_diff == old_radius - new_radius
        end_point == <<GetEnd(drw).x, GetEnd(drw).y - radius_diff>>
    IN SetEnd(drw, KiCADVector(end_point))

(* The dispatch on the shape the board object shows.                       *)
ApplyDrawingProperty(drw, drawing_property, value) ==
    LET shape == ShowShape(drw)
    IN IF InStr("Line", shape) THEN LineSetPoint(drw, drawing_property, value)
       ELSE IF InStr("Rect", shape) THEN RectSetSides(drw, value)
       ELSE IF InStr("Poly", shape) THEN PolySetPoints(drw, value)
       ELSE IF InStr("Arc", shape) THEN ArcSetPoints(drw, value)
       ELSE IF InStr("Circle", shape) THEN
            IF drawing_property = "center" THEN CircleSetCenter(drw, value)
            ELSE IF drawing_property = "radius" THEN CircleSetRadius(drw, value)
            ELSE drw
       ELSE drw

(* The loop over changes.items(); di and bi are the entry found in the     *)
(* data model and the drawing found on the board, 0 for None. A method     *)
(* called on None raises AttributeError, which ends the call.              *)
RECURSIVE DrawingChangesFrom(_, _, _, _, _)
DrawingChangesFrom(st, di, bi, changes, j) ==
    IF j > Len(changes) THEN st
    ELSE IF bi = 0 THEN Raise(st, "AttributeError")
    ELSE LET drawing_property == changes[j][1]
             value == changes[j][2]
             st1 == [st EXCEPT !.brd.drawings[bi] =
                                   ApplyDrawingProperty(@, drawing_property, value)]
         IN IF di = 0 THEN Raise(st1, "AttributeError")
            ELSE DrawingChangesFrom(
                     [st1 EXCEPT !.pcb.drawings[di] = DictUpdate(@, drawing_property, value)],
                     di, bi, changes, j + 1)

HashStale(d) == d

(* Hash itself when all changes applied.                                   *)
HashItself(d) == DictUpdate(d, "hash", Md5Hex(Str(d)))

DrawingHashItself(st, di) ==
    IF di = 0 THEN Raise(st, "AttributeError")
    ELSE [st EXCEPT !.pcb.drawings[di] = HashItself(@)]

updateDrawingEntry(st, entry) ==
    LET kiid == entry.kiid
        changes == entry.changes
        di == getDictEntryByKIID(st.pcb.drawings, kiid)
        st1 == IF di = 0 THEN LogError(st, "Cannot find drawing in data model", kiid) ELSE st
        bi == getDrawingByKIID(st1.brd, kiid)
        st2 == IF bi = 0 THEN LogError(st1, "Cannot find drawing in pcb", kiid) ELSE st1
        st3 == DrawingChangesFrom(st2, di, bi, changes, 1)
    IN IF st3.raised /= "" THEN st3 ELSE DrawingHashItself(st3, di)

RECURSIVE updateDrawingsFrom(_, _, _)
updateDrawingsFrom(st, changed, i) ==
    IF i > Len(changed) \/ st.raised /= "" THEN st
    ELSE updateDrawingsFrom(updateDrawingEntry(st, changed[i]), changed, i + 1)

updateDrawings(st, changed) == updateDrawingsFrom(st, changed, 1)

(* ------------------------------------------------------------------ *)
(* PcbUpdater.updateFootprints                                         *)
(* ------------------------------------------------------------------ *)
LayerOf(value) ==
    IF value = "Top" THEN <<FrontLayer>>
    ELSE IF value = "Bot" THEN <<BackLayer>>
    ELSE <<>>

FootprintSetLayer(st, bi, value, kiid) ==
    LET layer == LayerOf(value)
    IN IF Truthy(layer) THEN [st EXCEPT !.brd.footprints[bi] = SetLayer(@, layer[1])]
       ELSE LogError(st, "Invalid layer", kiid)

ApplyFootprintProperty(st, bi, fp_property, value, kiid) ==
    IF fp_property = "ref" THEN [st EXCEPT !.brd.footprints[bi] = SetReference(@, value)]
    ELSE IF fp_property = "pos" THEN
        [st EXCEPT !.brd.footprints[bi] = SetFpPosition(@, KiCADVector(value))]
    ELSE IF fp_property = "rot" THEN
        [st EXCEPT !.brd.footprints[bi] = SetOrientationDegrees(@, value)]
    ELSE IF fp_property = "layer" THEN FootprintSetLayer(st, bi, value, kiid)
    ELSE st

RECURSIVE FootprintChangesFrom(_, _, _, _, _)
FootprintChangesFrom(st, di, bi, entry, j) ==
    IF j > Len(entry.changes) THEN st
    ELSE LET fp_property == entry.changes[j][1]
             value == entry.changes[j][2]
             st1 == ApplyFootprintProperty(st, bi, fp_property, value, entry.kiid)
         IN FootprintChangesFrom(
                [st1 EXCEPT !.pcb.footprints[di] = DictUpdate(@, fp_property, value)],
                di, bi, entry, j + 1)

FootprintHashItself(st, di) ==
    [st EXCEPT !.pcb.footprints[di] = DictUpdate(@, "hash", Md5Hex(Str(@)))]

updateFootprintEntry(st, entry) ==
    LET kiid == entry.kiid
        di == getDictEntryByKIID(st.pcb.footprints, kiid)
        bi == getFootprintByKIID(st.brd, kiid)
    IN IF di = 0 THEN LogError(st, "Cannot find footprint in data model", kiid)
       ELSE IF bi = 0 THEN LogError(st, "Cannot find footprint in PCB", kiid)
       ELSE FootprintHashItself(FootprintChangesFrom(st, di, bi, entry, 1), di)

RECURSIVE updateFootprintsFrom(_, _, _)
updateFootprintsFrom(st, changed, i) ==
    IF i > Len(changed) THEN st
    ELSE updateFootprintsFrom(updateFootprintEntry(st, changed[i]), changed, i + 1)

(* footprints.get("changed") is the list changed; None and [] are <<>>.    *)
updateFootprints(st, changed) ==
    IF changed /= <<>> THEN updateFootprintsFrom(st, changed, 1) ELSE st

(* ------------------------------------------------------------------ *)
(* The loaded board and the data model scanned from it                 *)
(* ------------------------------------------------------------------ *)
LoadedShape(kiid, shape, start, end, poly) ==
    [kiid |-> kiid, shape |-> shape, start |-> start, end |-> end, mid |-> Vec0,
     poly |-> poly, layer |-> "Edge_Cuts", width |-> ShapeWidth]

(* A data model entry: its hash is the digest of the entry as scanned.     *)
Scanned(keys, vals) ==
    LET d == [keys |-> keys, vals |-> vals]
    IN DictUpdate(d, "hash", Md5Hex(Str(d)))

LoadedBoard(circle_end) ==
    [drawings |-> <<
        LoadedShape("d1", "Rect", [x |-> 0, y |-> 0], [x |-> 10, y |-> 10], <<>>),
        LoadedShape("d2", "Circle", [x |-> 0, y |-> 0], circle_end, <<>>),
        LoadedShape("d3", "Polygon", Vec0, Vec0,
                    <<[x |-> 0, y |-> 0], [x |-> 4, y |-> 0], [x |-> 0, y |-> 4]>>) >>,
     footprints |-> <<
        [kiid |-> "f1", ref |-> "R1", pos |-> [x |-> 0, y |-> 0], rot |-> 0,
         layer |-> FrontLayer],
        [kiid |-> "f2", ref |-> "C1", pos |-> [x |-> 5, y |-> 5], rot |-> 0,
         layer |-> BackLayer] >>]

FootprintEntry(kiid, ref, pos, rot, layer) ==
    Scanned(<<"kiid", "ref", "pos", "rot", "layer", "3d_models">>,
            ("3d_models" :> <<>>) @@
            [kiid |-> kiid, ref |-> ref, pos |-> pos, rot |-> rot, layer |-> layer])

ScannedModel ==
    [drawings |-> <<
        Scanned(<<"kiid", "shape", "points">>,
                [kiid |-> "d1", shape |-> "Rect",
                 points |-> << <<0, 0>>, <<10, 0>>, <<10, 10>>, <<0, 10>> >>]),
        Scanned(<<"kiid", "shape", "center", "radius">>,
                [kiid |-> "d2", shape |-> "Circle", center |-> <<0, 0>>, radius |-> 5]),
        Scanned(<<"kiid", "shape", "points">>,
                [kiid |-> "d3", shape |-> "Poly",
                 points |-> << <<0, 0>>, <<4, 0>>, <<0, 4>> >>]) >>,
     footprints |-> <<
        FootprintEntry("f1", "R1", <<0, 0>>, 0, "Top"),
        FootprintEntry("f2", "C1", <<5, 5>>, 0, "Bot") >>]

(* A circle drawn in KiCAD has its boundary point where the pointer was    *)
(* released: beside the centre, or straight above it.                      *)
LoadedCircleEnds == { [x |-> 3, y |-> 4], [x |-> 0, y |-> 0 - 5] }

(* ------------------------------------------------------------------ *)
(* The diffs the calls are given                                       *)
(* ------------------------------------------------------------------ *)
AddedChoices ==
    { [shape |-> "Line", start |-> <<0, 0>>, end |-> <<3, 4>>],
      [shape |-> "Circle", center |-> <<1000000, 1000000>>, radius |-> 500000],
      [shape |-> "Arc", points |-> << <<0, 0>>, <<1, 1>>, <<2, 0>> >>],
      [shape |-> "Rect", points |-> << <<0, 0>>, <<2, 0>>, <<2, 2>>, <<0, 2>> >>] }

RECURSIVE AddedLists(_)
AddedLists(n) ==
    IF n = 0 THEN {<<>>}
    ELSE {<<>>} \cup {<<d>> \o l : d \in AddedChoices, l \in AddedLists(n - 1)}

(* The changes a diff holds for a drawing go by its shape; a radius as     *)
(* large as the one a drawing was added with is given only to a circle     *)
(* whose boundary point lies on the vertical through its centre.           *)
DrawingChanges(drw) ==
    IF InStr("Line", drw.shape) THEN { << <<"start", <<1, 1>> >>, <<"end", <<6, 8>> >> >> }
    ELSE IF InStr("Rect", drw.shape) THEN
        { << <<"points", << <<0, 0>>, <<100, 0>>, <<100, 50>>, <<0, 50>> >> >> >>,
          << <<"points", << <<7, 9>>, <<1, 2>>, <<7, 2>>, <<1, 9>> >> >> >> }
    ELSE IF InStr("Poly", drw.shape) THEN
        { << <<"points", << <<1, 1>>, <<5, 1>>, <<1, 5>> >> >> >> }
    ELSE IF InStr("Arc", drw.shape) THEN
        { << <<"points", << <<2, 0>>, <<0, 2>>, <<0 - 2, 0>> >> >> >> }
    ELSE IF drw.start.x = drw.end.x THEN { << <<"radius", 300000>> >> }
    ELSE { << <<"radius", 3>> >>, << <<"center", <<2, 2>> >>, <<"radius", 3>> >> }

UnknownKiid == "zz"

DrawingEntryChoices ==
    UNION { { [kiid |-> brd.drawings[i].kiid, changes |-> c] :
                 c \in DrawingChanges(brd.drawings[i]) } : i \in 1..Len(brd.drawings) }
    \cup { [kiid |-> UnknownKiid, changes |-> << <<"start", <<1, 1>> >> >>] }

FootprintChanges ==
    { << <<"layer", "Bot">> >>,
      << <<"layer", "Top">> >>,
      << <<"layer", "Mid">>, <<"rot", 90>> >>,
      << <<"ref", "R9">>, <<"pos", <<2, 3>> >>, <<"3d_models", <<"m.step">> >> >> }

FootprintEntryChoices ==
    { [kiid |-> brd.footprints[i].kiid, changes |-> c] :
         i \in 1..Len(brd.footprints), c \in FootprintChanges }
    \cup { [kiid |-> UnknownKiid, changes |-> << <<"rot", 90>> >>] }

(* Lists of at most n entries, no two for the same object.                 *)
RECURSIVE ChangedLists(_, _)
ChangedLists(S, n) ==
    IF n = 0 THEN {<<>>}
    ELSE {<<>>} \cup
         UNION { {<<e>> \o l : l \in ChangedLists({x \in S : x.kiid /= e.kiid}, n - 1)} : e \in S }

(* ------------------------------------------------------------------ *)
(* The calls                                                           *)
(* ------------------------------------------------------------------ *)
Start == [brd |-> brd, pcb |-> pcb, uuids |-> uuids, log |-> <<>>, raised |-> "",
          rets |-> <<>>]

Return(op, arg, st) ==
    /\ brd' = st.brd
    /\ pcb' = st.pcb
    /\ uuids' = st.uuids
    /\ applied' = applied + Len(arg)
    /\ last' = [op |-> op, arg |-> arg, pre |-> [brd |-> brd, pcb |-> pcb],
                raised |-> st.raised, log |-> st.log, rets |-> st.rets]

Init ==
    /\ \E circle_end \in LoadedCircleEnds : brd = LoadedBoard(circle_end)
    /\ pcb = ScannedModel
    /\ uuids = 0
    /\ applied = 0
    /\ last = [op |-> "load", arg |-> <<>>, pre |-> [brd |-> brd, pcb |-> pcb],
               raised |-> "", log |-> <<>>, rets |-> <<>>]

AddDrawings ==
    \E added \in AddedLists(MaxEntries - applied) :
        /\ uuids + Len(added) <= Len(KiidPool)
        /\ Return("addDrawings", added, addDrawings(Start, added))

UpdateDrawings ==
    \E changed \in ChangedLists(DrawingEntryChoices, MaxEntries - applied) :
        Return("updateDrawings", changed, updateDrawings(Start, changed))

UpdateFootprints ==
    \E changed \in ChangedLists(FootprintEntryChoices, MaxEntries - applied) :
        Return("updateFootprints", changed, updateFootprints(Start, changed))

Next == AddDrawings \/ UpdateDrawings \/ UpdateFootprints

Spec == Init /\ [][Next]_vars

(* ------------------------------------------------------------------ *)
(* Reading the last call                                               *)
(* ------------------------------------------------------------------ *)
VecList(v) == <<v.x, v.y>>

SetMin(S) == CHOOSE m \in S : \A x \in S : m <= x
SetMax(S) == CHOOSE m \in S : \A x \in S : m >= x

OnBoard(b, kiid) == getDrawingByKIID(b, kiid) /= 0
InModel(list, kiid) == getDictEntryByKIID(list, kiid) /= 0

DrawingOf(b, kiid) == b.drawings[getDrawingByKIID(b, kiid)]
FootprintOf(b, kiid) == b.footprints[getFootprintByKIID(b, kiid)]
EntryOf(list, kiid) == list[getDictEntryByKIID(list, kiid)]

Reported(kiid) == \E n \in 1..Len(last.log) : last.log[n][1] = "error" /\ last.log[n][3] = kiid

(* The drawing entry is in the board and in the data model.                *)
InBothD(kiid) == OnBoard(last.pre.brd, kiid) /\ InModel(last.pre.pcb.drawings, kiid)

InBothF(kiid) ==
    /\ getFootprintByKIID(last.pre.brd, kiid) /= 0
    /\ InModel(last.pre.pcb.footprints, kiid)

(* Entry i of updateDrawings and all entries before it are in both.        *)
ProcessedD(i) == \A j \in 1..i : InBothD(last.arg[j].kiid)

(* Change j of entry i of updateDrawings reached the board object.         *)
ReachedBoard(i, j) ==
    /\ ProcessedD(i - 1)
    /\ OnBoard(last.pre.brd, last.arg[i].kiid)
    /\ (InModel(last.pre.pcb.drawings, last.arg[i].kiid) \/ j = 1)

RECURSIVE ApplyAll(_, _)
ApplyAll(drw, changes) ==
    IF changes = <<>> THEN drw
    ELSE ApplyAll(ApplyDrawingProperty(drw, changes[1][1], changes[1][2]), Tail(changes))

Recognized(drawing) == drawing.shape \in {"Line", "Circle", "Arc"}

(* ------------------------------------------------------------------ *)
(* Claims                                                              *)
(* ------------------------------------------------------------------ *)

(* C1: updateDrawings skips a Changed entry whose kiid is missing from the *)
(* data model or from the board (it is reported, and neither the board nor *)
(* the data model is changed for it), applies every other entry of the     *)
(* list to board and data model, and does not abort.                       *)
C1_MissingEntrySkippedOthersApplied ==
    last.op = "updateDrawings" =>
        /\ last.raised = ""
        /\ \A i \in 1..Len(last.arg) :
              LET kiid == last.arg[i].kiid
                  changes == last.arg[i].changes
              IN IF InBothD(kiid)
                 THEN /\ DrawingOf(brd, kiid) = ApplyAll(DrawingOf(last.pre.brd, kiid), changes)
                      /\ \A j \in 1..Len(changes) :
                            DictGet(EntryOf(pcb.drawings, kiid), changes[j][1]) = changes[j][2]
                 ELSE /\ Reported(kiid)
                      /\ OnBoard(last.pre.brd, kiid) =>
                            DrawingOf(brd, kiid) = DrawingOf(last.pre.brd, kiid)
                      /\ InModel(last.pre.pcb.drawings, kiid) =>
                            EntryOf(pcb.drawings, kiid) = EntryOf(last.pre.pcb.drawings, kiid)

(* C2: after addDrawings, every added drawing of a recognized shape is on  *)
(* the board and has exactly one entry in the data model's drawings, with  *)
(* the kiid the host assigned to the board object.                         *)
C2_AddedDrawingHasShadowEntry ==
    last.op = "addDrawings" =>
        \A i \in 1..Len(last.arg) :
            Recognized(last.arg[i]) =>
                /\ OnBoard(brd, last.rets[i])
                /\ Cardinality({n \in 1..Len(pcb.drawings) :
                                   DictGet(pcb.drawings[n], "kiid") = last.rets[i]}) = 1

(* C3: after updateDrawings or updateFootprints returns, the data model    *)
(* entry of every Changed entry found in board and data model holds the    *)
(* new value of every property named, and its hash is the digest of the    *)
(* entry's serialization taken after those values were written (at which   *)
(* point the hash field still holds the hash it had before the call).      *)
HashedAfterUpdate(before, after) ==
    DictGet(after, "hash") = Md5Hex(Str(DictUpdate(after, "hash", DictGet(before, "hash"))))

C4_UnknownShapeSkipped ==
    last.op = "addDrawings" =>
        /\ last.raised = ""
        /\ pcb = last.pre.pcb
        /\ Len(last.rets) = Len(last.arg)
        /\ Len(brd.drawings) = Len(last.pre.brd.drawings)
              + Cardinality({i \in 1..Len(last.arg) : Recognized(last.arg[i])})
        /\ \A n \in 1..Len(last.pre.brd.drawings) : brd.drawings[n] = last.pre.brd.drawings[n]
        /\ Cardinality({n \in 1..Len(last.log) : last.log[n][1] = "error"})
              = Cardinality({i \in 1..Len(last.arg) : ~Recognized(last.arg[i])})
        /\ \A i \in 1..Len(last.arg) :
              IF Recognized(last.arg[i])
              THEN /\ last.rets[i] /= ""
                   /\ OnBoard(brd, last.rets[i])
                   /\ DrawingOf(brd, last.rets[i]).shape = last.arg[i].shape
              ELSE last.rets[i] = ""

(* An unrecognized descriptor came first and a circle after it was added.  *)
C4_Witness ==
    /\ last.op = "addDrawings"
    /\ Len(last.arg) >= 2
    /\ last.arg[1].shape = "Rect"
    /\ last.arg[2].shape = "Circle"
    /\ last.rets[1] = ""
    /\ OnBoard(brd, last.rets[2])

(* C5: in updateFootprints layer="Top" sets the board footprint's layer to *)
(* the front layer (0) and layer="Bot" to the back layer (31), and no      *)
(* invalid-layer error is reported.                                        *)
C5_TopAndBotSetLayer ==
    last.op = "updateFootprints" =>
        \A i \in 1..Len(last.arg) :
            LET kiid == last.arg[i].kiid
                changes == last.arg[i].changes
            IN InBothF(kiid) =>
                  \A j \in 1..Len(changes) :
                      (changes[j][1] = "layer" /\ changes[j][2] \in {"Top", "Bot"}) =>
                          /\ FootprintOf(brd, kiid).layer =
                                (IF changes[j][2] = "Top" THEN FrontLayer ELSE BackLayer)
                          /\ ~Reported(kiid)

(* What the board footprint and the data model entry say agree.            *)
FootprintAgrees(fp, entry) ==
    /\ fp.ref = DictGet(entry, "ref")
    /\ VecList(fp.pos) = DictGet(entry, "pos")
    /\ fp.rot = DictGet(entry, "rot")
    /\ <<fp.layer>> = LayerOf(DictGet(entry, "layer"))

(* C6: a layer value that is neither "Top" nor "Bot" is reported and only  *)
(* that property is skipped: the layer of the board footprint and of the   *)
(* data model entry stay as they were, the other properties of the entry   *)
(* are applied, and board and data model agree on the entry afterwards.    *)
C6_InvalidLayerSkipsOnlyThatProperty ==
    last.op = "updateFootprints" =>
        \A i \in 1..Len(last.arg) :
            LET kiid == last.arg[i].kiid
                changes == last.arg[i].changes
                fp == FootprintOf(brd, kiid)
                entry == EntryOf(pcb.footprints, kiid)
            IN (/\ InBothF(kiid)
                /\ \E j \in 1..Len(changes) :
                      changes[j][1] = "layer" /\ changes[j][2] \notin {"Top", "Bot"}) =>
                  /\ Reported(kiid)
                  /\ fp.layer = FootprintOf(last.pre.brd, kiid).layer
                  /\ DictGet(entry, "layer") =
                        DictGet(EntryOf(last.pre.pcb.footprints, kiid), "layer")
                  /\ \A j \in 1..Len(changes) :
                        changes[j][1] /= "layer" =>
                            DictGet(entry, changes[j][1]) = changes[j][2]
                  /\ FootprintAgrees(fp, entry)

(* C7: the radius update of a circle is idempotent: once updateDrawings    *)
(* has applied radius=r to a board circle, applying the same entry again   *)
(* leaves the boundary point where the first application put it.           *)
C7_RadiusUpdateIdempotent ==
    last.op = "updateDrawings" =>
        \A i \in 1..Len(last.arg) :
            LET e == last.arg[i]
            IN (/\ ProcessedD(i)
                /\ DrawingOf(brd, e.kiid).shape = "Circle"
                /\ Len(e.changes) = 1
                /\ e.changes[1][1] = "radius") =>
                  GetEnd(DrawingOf(updateDrawings(Start, <<e>>).brd, e.kiid))
                      = GetEnd(DrawingOf(brd, e.kiid))

(* C8: a points list given for a rectangle sets top = min(y), bottom =     *)
(* max(y), left = min(x), right = max(x) over the points, in whatever      *)
(* order they come, so top <= bottom and left <= right.                    *)
C8_RectSidesAreBounds ==
    last.op = "updateDrawings" =>
        \A i \in 1..Len(last.arg) :
            LET e == last.arg[i]
                rect == DrawingOf(brd, e.kiid)
                pts == e.changes[1][2]
                xs == {pts[n][1] : n \in 1..Len(pts)}
                ys == {pts[n][2] : n \in 1..Len(pts)}
            IN (ProcessedD(i) /\ DrawingOf(last.pre.brd, e.kiid).shape = "Rect") =>
                  /\ GetTop(rect) = SetMin(ys)
                  /\ GetBottom(rect) = SetMax(ys)
                  /\ GetLeft(rect) = SetMin(xs)
                  /\ GetRight(rect) = SetMax(xs)
                  /\ GetTop(rect) <= GetBottom(rect)
                  /\ GetLeft(rect) <= GetRight(rect)
                  /\ pts = << <<0, 0>>, <<100, 0>>, <<100, 50>>, <<0, 50>> >> =>
                        /\ GetTop(rect) = 0
                        /\ GetBottom(rect) = 50
                        /\ GetLeft(rect) = 0
                        /\ GetRight(rect) = 100

(* The rectangle was given its corners out of order.                       *)
C8_Witness ==
    /\ last.op = "updateDrawings"
    /\ \E i \in 1..Len(last.arg) :
          /\ ProcessedD(i)
          /\ last.arg[i].kiid = "d1"
          /\ last.arg[i].changes[1][2] = << <<7, 9>>, <<1, 2>>, <<7, 2>>, <<1, 9>> >>
    /\ DrawingOf(brd, "d1").start = [x |-> 1, y |-> 2]
    /\ DrawingOf(brd, "d1").end = [x |-> 7, y |-> 9]

C10_AddedGeometryReadsBack ==
    last.op = "addDrawings" =>
        \A i \in 1..Len(last.arg) :
            LET d == last.arg[i]
                o == DrawingOf(brd, last.rets[i])
            IN Recognized(d) =>
                  /\ ShowShape(o) = d.shape
                  /\ d.shape = "Line" =>
                        /\ VecList(GetStart(o)) = d.start
                        /\ VecList(GetEnd(o)) = d.end
                  /\ d.shape = "Arc" =>
                        <<VecList(o.start), VecList(o.mid), VecList(o.end)>> = d.points
                  /\ d.shape = "Circle" =>
                        /\ VecList(GetCenter(o)) = d.center
                        /\ VecList(GetEnd(o)) = <<d.center[1], d.center[2] + d.radius>>
                        /\ GetRadius(o) = d.radius

(* A line, a circle and an arc were added by one call.                     *)
C10_Witness ==
    /\ last.op = "addDrawings"
    /\ {last.arg[i].shape : i \in 1..Len(last.arg)} = {"Line", "Circle", "Arc"}
    /\ Len(brd.drawings) = Len(last.pre.brd.drawings) + 3

(* C11: re-applying a Changed entry is idempotent on the data model: once  *)
(* updateDrawings or updateFootprints has applied an entry found in board  *)
(* and data model, applying the same entry again leaves the data model     *)
(* entry, its hash included, as the first application left it (the hash   *)
(* goes by the other fields alone, not by the hash held before).           *)
C11_ReapplyLeavesShadowEntry ==
    /\ (last.op = "updateDrawings" /\ last.raised = "") =>
          \A i \in 1..Len(last.arg) :
              LET e == last.arg[i]
              IN InBothD(e.kiid) =>
                    EntryOf(updateDrawings(Start, <<e>>).pcb.drawings, e.kiid)
                        = EntryOf(pcb.drawings, e.kiid)
    /\ (last.op = "updateFootprints" /\ last.raised = "") =>
          \A i \in 1..Len(last.arg) :
              LET e == last.arg[i]
              IN InBothF(e.kiid) =>
                    EntryOf(updateFootprints(Start, <<e>>).pcb.footprints, e.kiid)
                        = EntryOf(pcb.footprints, e.kiid)

====
